---- MODULE Spec2Model ----
(***************************************************************************)
(* StockWatcher: a Stream Deck action that polls a quote provider and      *)
(* renders the quote on a key.  Two revisions of the action exist: the     *)
(* chart revision (Yahoo chart endpoint, src/unnamed/part_001) and the     *)
(* quote revision (authenticated quote endpoint,                           *)
(* src/src/actions/stock-quote.ts).  Both share the refresh scheduler.     *)
(*                                                                         *)
(* Execution is single threaded.  A handler runs until it awaits I/O (a    *)
(* fetch, a backoff sleep, the body of a response, the host's answer to    *)
(* getSettings); every other await (setTitle, setImage, showAlert, the     *)
(* return of an async function) resolves on the microtask queue, so no     *)
(* other event is dispatched there.  One action of the model is one such   *)
(* run-to-suspension segment.                                              *)
(***************************************************************************)
EXTENDS Integers, Sequences, FiniteSets, Bags, TLC

(* ----------------------------- bounds --------------------------------- *)
\* requests the suspended handlers may have outstanding at once; a handler
\* counts for the requests its pipeline run starts
MaxInflight == 2
\* timer handles that may exist at once
MaxTimers == 3
\* longest refreshInterval string drawn over IntervalAlphabet
MaxLen == 2
\* largest maxRetries tried on the stand-alone retry client
MaxRetriesBound == 4
\* the clock and the boundaries of the trading periods range over 0..MaxTime
MaxTime == 2
\* longest timestamp array and longest close series of a chart payload
MaxCandles == 4

\* the instances of the action (one key)
ActionIds == {"X"}
Handles == 1..MaxTimers
NoHandle == 0

(* ----------------------------- strings -------------------------------- *)
\* A string is a sequence of one-character strings; undefined is a value no
\* string equals.
Undefined == <<"undefined">>
msft == <<"m", "s", "f", "t">>
key == <<"k">>
SetupRequired == <<"Setup\nRequired">>
Loading == <<"Loading...">>
EmptyTitle == <<>>
NoImage == <<>>

Falsy(x) == x = Undefined \/ x = <<>>

UpperChar(ch) ==
    CASE ch = "m" -> "M"
      [] ch = "s" -> "S"
      [] ch = "f" -> "F"
      [] ch = "t" -> "T"
      [] OTHER -> ch

ToUpperCase(str) == [i \in 1..Len(str) |-> UpperChar(str[i])]

ErrorTitle(symbol) == symbol \o <<"\nError">>

(* ----------------------------- numbers -------------------------------- *)
\* A JavaScript number: an integer or NaN.
NaN == [nan |-> TRUE, val |-> 0]
Num(v) == [nan |-> FALSE, val |-> v]

Digits == {"0", "1", "2", "3", "4", "5", "6", "7", "8", "9"}
DigitVal(ch) ==
    CASE ch = "0" -> 0 [] ch = "1" -> 1 [] ch = "2" -> 2 [] ch = "3" -> 3
      [] ch = "4" -> 4 [] ch = "5" -> 5 [] ch = "6" -> 6 [] ch = "7" -> 7
      [] ch = "8" -> 8 [] ch = "9" -> 9

RECURSIVE SkipSpace(_)
SkipSpace(str) ==
    IF str # <<>> /\ Head(str) = " " THEN SkipSpace(Tail(str)) ELSE str

RECURSIVE DigitPrefix(_)
DigitPrefix(str) ==
    IF str # <<>> /\ Head(str) \in Digits
    THEN <<Head(str)>> \o DigitPrefix(Tail(str))
    ELSE <<>>

RECURSIVE DecimalValue(_)
DecimalValue(ds) ==
    IF ds = <<>> THEN 0
    ELSE 10 * DecimalValue(SubSeq(ds, 1, Len(ds) - 1)) + DigitVal(ds[Len(ds)])

\* parseInt(str, 10): leading white space is skipped, one sign is read, the
\* longest run of digits is the value, and no digit at all gives NaN.
ParseInt(str) ==
    LET t == SkipSpace(str)
        signed == t # <<>> /\ Head(t) \in {"+", "-"}
        sign == IF signed /\ Head(t) = "-" THEN -1 ELSE 1
        body == IF signed THEN Tail(t) ELSE t
        ds == DigitPrefix(body)
    IN IF ds = <<>> THEN NaN ELSE Num(sign * DecimalValue(ds))

TimeoutMax == 2147483647

\* setInterval(callback, after): a delay that is not in 1..TIMEOUT_MAX
\* (NaN included) is replaced by 1.
TimerPeriod(after) ==
    IF after.nan \/ after.val < 1 \/ after.val > TimeoutMax THEN 1 ELSE after.val

DefaultInterval == <<"6", "0", "0", "0", "0">>

\* parseInt(settings.refreshInterval || "60000", 10)
RefreshMs(settings) ==
    ParseInt(IF Falsy(settings.refreshInterval)
             THEN DefaultInterval
             ELSE settings.refreshInterval)

(* ----------------------------- settings ------------------------------- *)
Settings(symbol, apiKey, refreshInterval) ==
    [symbol |-> symbol, apiKey |-> apiKey, refreshInterval |-> refreshInterval]

NoSettings == Settings(Undefined, Undefined, Undefined)

\* the settings the host delivers in the model, per revision
SettingsOf(v) ==
    IF v = "chart"
    THEN { NoSettings,
           Settings(msft, Undefined, <<"2", "0", "0", "0">>),
           Settings(msft, Undefined, Undefined) }
    ELSE { NoSettings,
           Settings(msft, Undefined, <<"2", "0", "0", "0">>),
           Settings(msft, key, Undefined) }

(* --------------------------- retry client ----------------------------- *)
\* fetchWithRetry (chart revision) and fetchWithBackoff (quote revision) run
\* the same loop.  A client is one call of it:
\*   pc = "fetch"     a request is out and its response is awaited
\*   pc = "sleep"     the backoff sleep of `delay` ms is running
\*   pc = "returned"  the call returned the response (its body is still unread)
\*   pc = "done"      the body has been read (pipeline only)
\*   pc = "thrown"    the call failed with `err`
DefaultMaxRetries == 3
DefaultInitialDelay == 1000

Statuses == {200, 204, 404, 429, 500}
Rejected == [rejected |-> TRUE, status |-> 0]
Response(status) == [rejected |-> FALSE, status |-> status]
Responses == {Response(s) : s \in Statuses} \cup {Rejected}
\* the answers a request of a pipeline run is given: one of each kind
PipelineResponses == {Response(200), Response(429), Response(500), Rejected}

\* response.ok
Ok(r) == r.status >= 200 /\ r.status <= 299

Client(pc, attempt, maxRetries, initialDelay, delay, err, body) ==
    [pc |-> pc, attempt |-> attempt, maxRetries |-> maxRetries,
     initialDelay |-> initialDelay, delay |-> delay, err |-> err, body |-> body]

\* a backoff that grows by initialDelay instead of doubling
BackoffLinear(initialDelay, attempt) == initialDelay * (attempt + 1)

\* initialDelay * Math.pow(2, attempt)
Backoff(initialDelay, attempt) == initialDelay * 2^attempt

\* Entry of the loop: attempt = 0; the first request is issued unless the
\* loop body is never entered.
FetchStart(maxRetries, initialDelay) ==
    IF 0 <= maxRetries
    THEN Client("fetch", 0, maxRetries, initialDelay, 0, "none", "none")
    ELSE Client("thrown", 0, maxRetries, initialDelay, 0, "RequestFailed", "none")

\* the loop body with `attempt <= maxRetries` as the test for another try
OnResponseOneMore(c, r) ==
    IF r.rejected THEN [c EXCEPT !.pc = "thrown", !.err = "FetchRejected"]
    ELSE IF Ok(r) THEN [c EXCEPT !.pc = "returned"]
    ELSE IF r.status = 429
    THEN IF c.attempt <= c.maxRetries
         THEN [c EXCEPT !.pc = "sleep", !.delay = Backoff(c.initialDelay, c.attempt)]
         ELSE [c EXCEPT !.pc = "thrown", !.err = "RateLimitExceeded"]
    ELSE [c EXCEPT !.pc = "thrown", !.err = "RequestFailed"]

\* the loop body retrying after every status that is not 2xx
OnResponseRetryAll(c, r) ==
    IF r.rejected THEN [c EXCEPT !.pc = "thrown", !.err = "FetchRejected"]
    ELSE IF Ok(r) THEN [c EXCEPT !.pc = "returned"]
    ELSE IF c.attempt < c.maxRetries
    THEN [c EXCEPT !.pc = "sleep", !.delay = Backoff(c.initialDelay, c.attempt)]
    ELSE IF r.status = 429
    THEN [c EXCEPT !.pc = "thrown", !.err = "RateLimitExceeded"]
    ELSE [c EXCEPT !.pc = "thrown", !.err = "RequestFailed"]

\* The loop body after `await fetch(...)` settles with r.
OnResponse(c, r) ==
    IF r.rejected THEN [c EXCEPT !.pc = "thrown", !.err = "FetchRejected"]
    ELSE IF Ok(r) THEN [c EXCEPT !.pc = "returned"]
    ELSE IF r.status = 429
    THEN IF c.attempt < c.maxRetries
         THEN [c EXCEPT !.pc = "sleep", !.delay = Backoff(c.initialDelay, c.attempt)]
         ELSE [c EXCEPT !.pc = "thrown", !.err = "RateLimitExceeded"]
    ELSE [c EXCEPT !.pc = "thrown", !.err = "RequestFailed"]

\* `await sleep(delay)` is over: continue, attempt++, the next request.
OnWake(c) == [c EXCEPT !.pc = "fetch", !.attempt = c.attempt + 1, !.delay = 0]

Active(c) == c.pc \in {"fetch", "sleep", "returned"}

(* ------------------------------ host ---------------------------------- *)
\* What a key shows: the last title and image it was sent, and whether the
\* transient alert indicator is on.
Key(title, image, alert) == [title |-> title, image |-> image, alert |-> alert]

SetTitle(d, id, title) == [d EXCEPT ![id].title = title]
SetImage(d, id, image) == [d EXCEPT ![id].image = image]
ShowAlert(d, id) == [d EXCEPT ![id].alert = TRUE]

\* generateStockImage(symbol.toUpperCase(), ...)
StockImage(symbol) == <<"svg">> \o symbol

(* ---------------------------- scheduler ------------------------------- *)
FreeTimer == [active |-> FALSE, id |-> "-", ms |-> 0]
Timer(id, ms) == [active |-> TRUE, id |-> id, ms |-> ms]

Sched(map, ts) == [map |-> map, timers |-> ts]

\* handles setInterval may return: no live timer, and nothing refers to them
FreeHandles(sch) ==
    {h \in Handles : ~sch.timers[h].active /\ \A id \in ActionIds : sch.map[id] # h}

NewHandle(sch) == CHOOSE h \in FreeHandles(sch) : \A g \in FreeHandles(sch) : h <= g

ClearInterval(ts, h) == [ts EXCEPT ![h] = FreeTimer]

\* startRefreshInterval without its clearInterval
StartRefreshIntervalNoClear(sch, actionId, settings) ==
    LET interval == NewHandle(sch)
    IN Sched([sch.map EXCEPT ![actionId] = interval],
             [sch.timers EXCEPT
                 ![interval] = Timer(actionId, TimerPeriod(RefreshMs(settings)))])

\* StockQuoteAction.startRefreshInterval
StartRefreshInterval(sch, actionId, settings) ==
    LET existingInterval == sch.map[actionId]
        cleared == IF existingInterval # NoHandle
                   THEN ClearInterval(sch.timers, existingInterval)
                   ELSE sch.timers
        refreshMs == RefreshMs(settings)
        interval == NewHandle(sch)
    IN Sched([sch.map EXCEPT ![actionId] = interval],
             [cleared EXCEPT ![interval] = Timer(actionId, TimerPeriod(refreshMs))])

\* onWillDisappear without its refreshIntervals.delete(actionId)
StopRefreshIntervalKeepsEntry(sch, actionId) ==
    LET interval == sch.map[actionId]
    IN IF interval # NoHandle
       THEN Sched(sch.map, ClearInterval(sch.timers, interval))
       ELSE sch

\* The body of StockQuoteAction.onWillDisappear
StopRefreshInterval(sch, actionId) ==
    LET interval == sch.map[actionId]
    IN IF interval # NoHandle
       THEN Sched([sch.map EXCEPT ![actionId] = NoHandle],
                  ClearInterval(sch.timers, interval))
       ELSE sch

(* ----------------------------- pipeline ------------------------------- *)
\* the test of the chart revision used in both revisions
MissingSymbolOnly(v, settings) == Falsy(settings.symbol)

\* `!symbol` (chart revision), `!symbol || !apiKey` (quote revision)
MissingConfiguration(v, settings) ==
    IF v = "chart"
    THEN Falsy(settings.symbol)
    ELSE Falsy(settings.symbol) \/ Falsy(settings.apiKey)

\* The requests a pipeline run starts: getYahooQuote issues one,
\* Promise.all([getQuote, getMarketStatus]) issues two at once.
StartFetches(v) ==
    IF v = "chart"
    THEN <<FetchStart(DefaultMaxRetries, DefaultInitialDelay)>>
    ELSE <<FetchStart(DefaultMaxRetries, DefaultInitialDelay),
           FetchStart(DefaultMaxRetries, DefaultInitialDelay)>>

\* What the body of a 2xx response can be.
Bodies(v) ==
    IF v = "chart"
    THEN {"quote", "error", "errorAndQuote", "noResult", "invalid"}
    ELSE {"quote", "malformed", "invalid"}

\* response.json() rejects
BodyRejects(b) == b = "invalid"

\* The bodies are read: does the rest of the try block throw?
\* chart: data.chart.error, then !result.  quote: quote.c.toFixed on a body
\* without the fields; a market status without fields renders as closed.
Throws(clients) == clients[1].body # "quote"

\* updateDisplay up to its first suspension.  found: getActionById found
\* the action.
UpdateDisplay(v, found, actionId, settings, d) ==
    IF ~found
    THEN [suspended |-> FALSE, display |-> d, clients |-> <<>>]
    ELSE IF MissingConfiguration(v, settings)
    THEN [suspended |-> FALSE, display |-> SetTitle(d, actionId, SetupRequired),
          clients |-> <<>>]
    ELSE [suspended |-> TRUE, display |-> d, clients |-> StartFetches(v)]

\* the end of the try block without its setTitle("")
ShowQuoteKeepsTitle(d, actionId, settings) ==
    SetImage(d, actionId, StockImage(ToUpperCase(settings.symbol)))

\* the end of the try block: setImage, then setTitle("")
ShowQuote(d, actionId, settings) ==
    SetTitle(SetImage(d, actionId, StockImage(ToUpperCase(settings.symbol))),
             actionId, EmptyTitle)

\* the catch block without its showAlert
ShowErrorNoAlert(d, actionId, settings) ==
    SetTitle(d, actionId, ErrorTitle(settings.symbol))

\* the catch block: setTitle(`${symbol}\nError`), then showAlert
ShowError(d, actionId, settings) ==
    ShowAlert(SetTitle(d, actionId, ErrorTitle(settings.symbol)), actionId)

(* ------------------------ the quote and its frame --------------------- *)
\* Prices are held as integer hundredths (42338 is 423.38); the arithmetic is
\* exact.  In a payload a field is a record: null, absent (reading it gives
\* undefined), a number Num(v), an array Array(items), or an object.
Null == [null |-> TRUE]
Absent == [undefined |-> TRUE]
Array(items) == [items |-> items]
\* x is null or undefined: !x for an object or an array, x ?? y takes y
Nullish(x) == x = Null \/ x = Absent

DigitChar(d) ==
    CASE d = 0 -> "0" [] d = 1 -> "1" [] d = 2 -> "2" [] d = 3 -> "3"
      [] d = 4 -> "4" [] d = 5 -> "5" [] d = 6 -> "6" [] d = 7 -> "7"
      [] d = 8 -> "8" [] d = 9 -> "9"

RECURSIVE Decimal(_)
Decimal(n) ==
    IF n < 10 THEN <<DigitChar(n)>>
    ELSE Decimal(n \div 10) \o <<DigitChar(n % 10)>>

Abs(n) == IF n < 0 THEN -n ELSE n

\* the digits of q hundredths: integer part, point, two decimals
Hundredths(q) ==
    Decimal(q \div 100) \o <<".", DigitChar((q % 100) \div 10), DigitChar(q % 10)>>

\* x.toFixed(2) for x of h hundredths
ToFixed2(h) == (IF h < 0 THEN <<"-">> ELSE <<>>) \o Hundredths(Abs(h))

\* A quotient num/den that is not computed until it is formatted.
Ratio(num, den) == [num |-> num, den |-> den]

\* (num/den).toFixed(2): NaN and the infinities print as their names; the
\* sign is printed for every negative value, also one that rounds to zero;
\* the magnitude is rounded to the nearest hundredth, a tie upward.
RatioToFixed2(r) ==
    IF r.den = 0
    THEN IF r.num = 0 THEN <<"NaN">>
         ELSE IF r.num > 0 THEN <<"Infinity">> ELSE <<"-Infinity">>
    ELSE LET negative == (r.num < 0 /\ r.den > 0) \/ (r.num > 0 /\ r.den < 0)
             q == (2 * 100 * Abs(r.num) + Abs(r.den)) \div (2 * Abs(r.den))
         IN (IF negative THEN <<"-">> ELSE <<>>) \o Hundredths(q)

(* ---- chart revision: getYahooQuote ---- *)
Period(start, end) == [start |-> start, end |-> end]
TradingPeriod(pre, regular, post) == [pre |-> pre, regular |-> regular, post |-> post]
Meta(regularMarketPrice, previousClose, currentTradingPeriod) ==
    [regularMarketPrice |-> regularMarketPrice, previousClose |-> previousClose,
     currentTradingPeriod |-> currentTradingPeriod]
\* close: result.indicators?.quote?.[0]?.close
Result(meta, timestamp, close) == [meta |-> meta, timestamp |-> timestamp, close |-> close]
ChartData(error, result) == [error |-> error, result |-> result]
ErrorObject == [code |-> "Not Found"]

\* tradingPeriod.x && now >= tradingPeriod.x.start && now < tradingPeriod.x.end
Within(period, now) ==
    ~Nullish(period) /\ now >= period.start /\ now < period.end

\* determineMarketState with a PRE interval that includes its end
DetermineMarketStateClosedEnd(meta, now) ==
    LET tradingPeriod == meta.currentTradingPeriod
    IN IF Nullish(tradingPeriod) THEN "CLOSED"
       ELSE IF Within(tradingPeriod.pre, now)
               \/ (~Nullish(tradingPeriod.pre) /\ now = tradingPeriod.pre.end)
       THEN "PRE"
       ELSE IF Within(tradingPeriod.regular, now) THEN "REGULAR"
       ELSE IF Within(tradingPeriod.post, now) THEN "POST"
       ELSE "CLOSED"

\* determineMarketState; now: Math.floor(Date.now() / 1000)
DetermineMarketState(meta, now) ==
    LET tradingPeriod == meta.currentTradingPeriod
    IN IF Nullish(tradingPeriod) THEN "CLOSED"
       ELSE IF Within(tradingPeriod.pre, now) THEN "PRE"
       ELSE IF Within(tradingPeriod.regular, now) THEN "REGULAR"
       ELSE IF Within(tradingPeriod.post, now) THEN "POST"
       ELSE "CLOSED"

\* arr[i - 1] of JavaScript: undefined beyond the end of the array
At(arr, i) == IF i \in DOMAIN arr.items THEN arr.items[i] ELSE Absent

\* for (i = timestamps.length - 1; i >= 0; i--) if (close[i] !== null) return close[i]
RECURSIVE ScanBack(_, _)
ScanBack(close, i) ==
    IF i < 1 THEN Null
    ELSE IF At(close, i) # Null THEN At(close, i)
    ELSE ScanBack(close, i - 1)

\* getLatestPriceFromCandles
GetLatestPriceFromCandles(result) ==
    IF Nullish(result.timestamp) \/ Nullish(result.close) THEN Null
    ELSE ScanBack(result.close, Len(result.timestamp.items))

StockQuote(price, previousClose, change, changePercent, marketState) ==
    [price |-> price, previousClose |-> previousClose, change |-> change,
     changePercent |-> changePercent, marketState |-> marketState]

Thrown(err) == [ok |-> FALSE, err |-> err]
Returned(value) == [ok |-> TRUE, value |-> value]

\* getYahooQuote with the result record looked at before the error object
GetYahooQuoteResultFirst(data, now) ==
    LET result == IF Nullish(data.result) THEN Absent ELSE At(data.result, 1)
    IN IF Nullish(result)
       THEN IF ~Nullish(data.error) THEN Thrown("ProviderError") ELSE Thrown("NoData")
       ELSE LET meta == result.meta
                marketState == DetermineMarketState(meta, now)
                latestCandle == GetLatestPriceFromCandles(result)
                price == IF marketState \in {"PRE", "POST"} /\ ~Nullish(latestCandle)
                         THEN latestCandle.val ELSE meta.regularMarketPrice
                change == price - meta.previousClose
            IN Returned(StockQuote(price, meta.previousClose, change,
                                   Ratio(change * 100, meta.previousClose), marketState))

\* getYahooQuote once response.json() has given data (data.chart); now is
\* the clock read by determineMarketState
GetYahooQuote(data, now) ==
    IF ~Nullish(data.error) THEN Thrown("ProviderError")
    ELSE LET result == IF Nullish(data.result) THEN Absent ELSE At(data.result, 1)
         IN IF Nullish(result) THEN Thrown("NoData")
            ELSE LET meta == result.meta
                     marketState == DetermineMarketState(meta, now)
                     latestCandle == GetLatestPriceFromCandles(result)
                     price == IF marketState \in {"PRE", "POST"} /\ ~Nullish(latestCandle)
                              THEN latestCandle.val ELSE meta.regularMarketPrice
                     previousClose == meta.previousClose
                     change == price - previousClose
                     changePercent == Ratio(change * 100, previousClose)
                 IN Returned(StockQuote(price, previousClose, change, changePercent,
                                        marketState))

(* ---- the frame ---- *)
MSFT == <<"M", "S", "F", "T">>

\* getMarketEmoji of the chart revision
GetMarketEmoji(marketState) ==
    CASE marketState = "PRE" -> "croissant"
      [] marketState = "REGULAR" -> "sun"
      [] marketState = "POST" -> "half moon"
      [] OTHER -> "moon"

\* getMarketEmoji of the quote revision
GetMarketEmojiOfStatus(status) ==
    IF ~status.isOpen THEN "moon"
    ELSE CASE status.session = "pre-market" -> "croissant"
           [] status.session = "regular" -> "sun"
           [] status.session = "post-market" -> "half moon"
           [] OTHER -> "bar chart"

\* generateStockImage with the colours the wrong way round
GenerateStockImageSwapped(symbol, marketEmoji, arrow, price, change, changePercent, isPositive) ==
    [symbol |-> symbol, marketEmoji |-> marketEmoji, price |-> price,
     arrow |-> arrow, arrowColor |-> IF isPositive THEN "#ff4444" ELSE "#00ff00",
     line |-> change \o <<" ">> \o changePercent \o <<"%">>,
     changeColor |-> IF isPositive THEN "#ff4444" ELSE "#00ff00"]

\* generateStockImage: the texts of the SVG and their colours (the encoding
\* of the SVG as a data URL is one to one and is left out); line is the
\* bottom line, `${change} ${changePercent}%`
GenerateStockImage(symbol, marketEmoji, arrow, price, change, changePercent, isPositive) ==
    LET arrowColor == IF isPositive THEN "#00ff00" ELSE "#ff4444"
        changeColor == IF isPositive THEN "#00ff00" ELSE "#ff4444"
    IN [symbol |-> symbol, marketEmoji |-> marketEmoji, price |-> price,
        arrow |-> arrow, arrowColor |-> arrowColor,
        line |-> change \o <<" ">> \o changePercent \o <<"%">>,
        changeColor |-> changeColor]

\* the frame with the percent taken of the price instead of the previous close
FrameOfQuotePercentOfPrice(symbol, quote) ==
    GenerateStockImage(ToUpperCase(symbol), GetMarketEmoji(quote.marketState),
                       IF quote.change >= 0 THEN "up" ELSE "down",
                       ToFixed2(quote.price), ToFixed2(quote.change),
                       RatioToFixed2(Ratio(quote.change * 100, quote.price)),
                       quote.change >= 0)

\* updateDisplay of the chart revision, from the quote to the image
FrameOfQuote(symbol, quote) ==
    LET marketEmoji == GetMarketEmoji(quote.marketState)
        price == ToFixed2(quote.price)
        arrow == IF quote.change >= 0 THEN "up" ELSE "down"
        change == ToFixed2(quote.change)
        changePercent == RatioToFixed2(quote.changePercent)
        isPositive == quote.change >= 0
    IN GenerateStockImage(ToUpperCase(symbol), marketEmoji, arrow, price, change,
                          changePercent, isPositive)

\* the bodies of the quote revision: Quote (c, d, dp, pc) and MarketStatus
FinnhubQuote(c, d, dp, pc) == [c |-> c, d |-> d, dp |-> dp, pc |-> pc]
MarketStatus(isOpen, session) == [isOpen |-> isOpen, session |-> session]
FinnhubData(quote, marketStatus) == [quote |-> quote, marketStatus |-> marketStatus]

\* updateDisplay of the quote revision, from the two bodies to the image;
\* toFixed of a value that is not a number throws (null >= 0 is true)
FrameOfFinnhub(symbol, quote, marketStatus) ==
    IF Nullish(quote.c) \/ Nullish(quote.d) \/ Nullish(quote.dp)
    THEN Thrown("TypeError")
    ELSE LET marketEmoji == GetMarketEmojiOfStatus(marketStatus)
             price == ToFixed2(quote.c.val)
             arrow == IF quote.d.val >= 0 THEN "up" ELSE "down"
             change == ToFixed2(quote.d.val)
             changePercent == ToFixed2(quote.dp.val)
             isPositive == quote.d.val >= 0
         IN Returned(GenerateStockImage(ToUpperCase(symbol), marketEmoji, arrow,
                                        price, change, changePercent, isPositive))

\* The try block of updateDisplay once the bodies are read: the image, or
\* what was thrown.
TryBlock(v, symbol, data, now) ==
    IF v = "chart"
    THEN LET quote == GetYahooQuote(data, now)
         IN IF quote.ok THEN Returned(FrameOfQuote(symbol, quote.value)) ELSE quote
    ELSE FrameOfFinnhub(symbol, data.quote, data.marketStatus)

\* setImage(imageData), then setTitle("")
ShowFrame(d, actionId, frame) == SetTitle(SetImage(d, actionId, frame), actionId, EmptyTitle)

(* ----------------------------- handlers ------------------------------- *)
\* A suspended handler.  kind: the handler it belongs to ("detached": a
\* request of Promise.all that outlived the pipeline run).
Handler(kind, id, settings, pc, clients) ==
    [kind |-> kind, id |-> id, settings |-> settings, pc |-> pc, clients |-> clients]

\* What follows `await this.updateDisplay(...)` in the handler.
AfterUpdate(kind, sch, actionId, settings) ==
    IF kind \in {"appear", "settings"}
    THEN StartRefreshInterval(sch, actionId, settings)
    ELSE sch

NeedsHandle(kind) == kind \in {"appear", "settings"}

VARIABLES
    variant,            \* which revision of the action is running
    present,            \* the host's action store: getActionById finds the id
    stored,             \* the settings the host keeps for each instance
    refreshIntervals,   \* StockQuoteAction.refreshIntervals
    timers,             \* the runtime's interval timers, by handle
    inflight,           \* bag of suspended handlers
    display,            \* what each key was last told to show
    call,               \* a function of the pipeline called on its own
    cycles              \* history: the refresh cycles of each instance

vars == <<variant, present, stored, refreshIntervals, timers, inflight, display,
          call, cycles>>

sched == Sched(refreshIntervals, timers)

SetSched(sch) ==
    /\ refreshIntervals' = sch.map
    /\ timers' = sch.timers

Suspended == BagToSet(inflight)

\* the requests a suspended handler accounts for
Weight(h) == IF h.kind = "detached" THEN 1 ELSE Len(StartFetches(variant))

RECURSIVE Load(_, _)
Load(bag, hs) ==
    IF hs = {} THEN 0
    ELSE LET h == CHOOSE x \in hs : TRUE
         IN CopiesIn(h, bag) * Weight(h) + Load(bag, hs \ {h})

Room == Load(inflight, Suspended) + Len(StartFetches(variant)) <= MaxInflight
Put(bag, h) == bag (+) SetToBag({h})
Take(bag, h) == bag (-) SetToBag({h})

NoCall == [client |-> Client("idle", 0, 0, 0, 0, "none", "none"), log |-> <<>>]

(* ---- history of the refresh cycles ---- *)
\* cycles is a history variable: no action reads it to decide what the
\* program does.  It is NotRecorded where the order of the cycles is of no
\* interest; otherwise it holds, for each instance:
\*   order        the pipeline runs that are suspended, oldest start first
\*   latest       what became of the cycle that started last: "none" (no
\*                cycle yet), "running", "shown" (it showed a quote),
\*                "failed" (it ended in the catch block), "setup" (it showed
\*                "Setup Required")
\*   olderFailed  a cycle that started before the last one has failed
\*   atFire       the settings the host stored when the timer last fired
NotRecorded == <<>>
Cycles(order, latest, olderFailed, atFire) ==
    [order |-> order, latest |-> latest, olderFailed |-> olderFailed, atFire |-> atFire]
NoCycles == [id \in ActionIds |-> Cycles(<<>>, "none", FALSE, NoSettings)]
Recording == cycles # NotRecorded

Positions(order, h) == {p \in 1..Len(order) : order[p] = h}
Without(order, p) == SubSeq(order, 1, p - 1) \o SubSeq(order, p + 1, Len(order))

\* a cycle starts and is suspended as g
RecordStart(id, g) ==
    cycles' = IF ~Recording THEN cycles
              ELSE [cycles EXCEPT ![id] =
                       Cycles(Append(@.order, g), "running",
                              @.olderFailed \/ @.latest = "failed", @.atFire)]

\* a cycle starts and ends at once with "Setup Required"
RecordSetup(id) ==
    cycles' = IF ~Recording THEN cycles
              ELSE [cycles EXCEPT ![id] =
                       Cycles(@.order, "setup",
                              @.olderFailed \/ @.latest = "failed", @.atFire)]

\* the suspended run h goes on as g
RecordAdvance(h, g) ==
    IF ~Recording \/ h.kind = "detached"
    THEN UNCHANGED cycles
    ELSE \E p \in Positions(cycles[h.id].order, h) :
            cycles' = [cycles EXCEPT ![h.id].order[p] = g]

\* the suspended run h ends
RecordEnd(h, failed) ==
    IF ~Recording
    THEN UNCHANGED cycles
    ELSE \E p \in Positions(cycles[h.id].order, h) :
            LET c == cycles[h.id]
                isLatest == p = Len(c.order) /\ c.latest = "running"
            IN cycles' = [cycles EXCEPT ![h.id] =
                   Cycles(Without(c.order, p),
                          IF ~isLatest THEN c.latest
                          ELSE IF failed THEN "failed" ELSE "shown",
                          c.olderFailed \/ (~isLatest /\ failed),
                          c.atFire)]

\* the timer of id fires
RecordFire(id) ==
    cycles' = IF ~Recording THEN cycles
              ELSE [cycles EXCEPT ![id].atFire = stored[id]]

Init ==
    /\ variant \in {"chart", "quote"}
    /\ present = [id \in ActionIds |-> FALSE]
    /\ stored = [id \in ActionIds |-> NoSettings]
    /\ refreshIntervals = [id \in ActionIds |-> NoHandle]
    /\ timers = [h \in Handles |-> FreeTimer]
    /\ inflight = EmptyBag
    /\ display = [id \in ActionIds |-> Key(EmptyTitle, NoImage, FALSE)]
    /\ call = NoCall
    /\ cycles = NotRecorded

\* A handler of `kind` calls updateDisplay(actionId, settings) with the keys
\* showing d and the other suspended handlers being bag, and runs on to its
\* next suspension or to its end.
Run(kind, actionId, settings, found, d, bag) ==
    LET u == UpdateDisplay(variant, found, actionId, settings, d)
    IN /\ display' = u.display
       /\ IF u.suspended
          THEN /\ inflight' = Put(bag, Handler(kind, actionId, settings, "pipeline", u.clients))
               /\ RecordStart(actionId,
                              Handler(kind, actionId, settings, "pipeline", u.clients))
               /\ UNCHANGED <<refreshIntervals, timers>>
          ELSE /\ inflight' = bag
               /\ IF found THEN RecordSetup(actionId) ELSE UNCHANGED cycles
               /\ NeedsHandle(kind) => FreeHandles(sched) # {}
               /\ SetSched(AfterUpdate(kind, sched, actionId, settings))

\* A suspended pipeline run of h ends: with the quote shown, or in the catch
\* block.  rest: the requests of h that are still running.
Settle(h, failed, rest) ==
    /\ display' = IF failed
                  THEN ShowError(display, h.id, h.settings)
                  ELSE ShowQuote(display, h.id, h.settings)
    /\ inflight' = IF rest = <<>>
                   THEN Take(inflight, h)
                   ELSE Put(Take(inflight, h),
                            Handler("detached", h.id, h.settings, "pipeline", rest))
    /\ RecordEnd(h, failed)
    /\ NeedsHandle(h.kind) => FreeHandles(sched) # {}
    /\ SetSched(AfterUpdate(h.kind, sched, h.id, h.settings))

\* the clients of h other than the i-th that are still running
Others(h, i) == SelectSeq([j \in DOMAIN h.clients |->
                              IF j = i THEN NoCall.client ELSE h.clients[j]],
                          Active)

Resume(h, g) ==
    /\ inflight' = Put(Take(inflight, h), g)
    /\ RecordAdvance(h, g)

(* ---- events of the host ---- *)
\* The host shows an instance (willAppear) only while it is not shown, and
\* sends willDisappear, didReceiveSettings and keyDown only for an instance
\* that is shown; getActionById finds exactly the instances that are shown.
\* The settings in a willAppear or didReceiveSettings payload are the ones the
\* host stores from then on; a keyDown payload carries the stored settings.
OnWillAppear(actionId, settings) ==
    /\ ~present[actionId]
    /\ Room
    /\ present' = [present EXCEPT ![actionId] = TRUE]
    /\ stored' = [stored EXCEPT ![actionId] = settings]
    /\ Run("appear", actionId, settings, TRUE, display, inflight)
    /\ UNCHANGED <<variant, call>>

OnWillDisappear(actionId) ==
    /\ present[actionId]
    /\ present' = [present EXCEPT ![actionId] = FALSE]
    /\ SetSched(StopRefreshInterval(sched, actionId))
    /\ UNCHANGED <<variant, stored, inflight, display, call, cycles>>

OnDidReceiveSettings(actionId, settings) ==
    /\ present[actionId]
    /\ Room
    /\ stored' = [stored EXCEPT ![actionId] = settings]
    /\ Run("settings", actionId, settings, TRUE, display, inflight)
    /\ UNCHANGED <<variant, present, call>>

\* onKeyDown without its setTitle("Loading...")
OnKeyDownNoLoading(actionId) ==
    /\ present[actionId]
    /\ Room
    /\ Run("key", actionId, stored[actionId], TRUE, display, inflight)
    /\ UNCHANGED <<variant, present, stored, call>>

OnKeyDown(actionId) ==
    /\ present[actionId]
    /\ Room
    /\ Run("key", actionId, stored[actionId], TRUE,
           SetTitle(display, actionId, Loading), inflight)
    /\ UNCHANGED <<variant, present, stored, call>>

\* the interval callback without its `if (action)`
TimerCallbackUnchecked(bag, found, actionId) ==
    Put(bag, Handler("timer", actionId, NoSettings, "getSettings", <<>>))

\* what the interval callback does when it is called: getSettings is asked
\* only of an action that getActionById finds
TimerCallback(bag, found, actionId) ==
    IF found
    THEN Put(bag, Handler("timer", actionId, NoSettings, "getSettings", <<>>))
    ELSE bag

TimerFire(interval) ==
    /\ timers[interval].active
    /\ present[timers[interval].id] => Room
    /\ inflight' = TimerCallback(inflight, present[timers[interval].id],
                                 timers[interval].id)
    /\ IF present[timers[interval].id]
       THEN RecordFire(timers[interval].id)
       ELSE UNCHANGED cycles
    /\ UNCHANGED <<variant, present, stored, refreshIntervals, timers, display, call>>

\* the callback going on with the settings it holds, not with the answer
GetSettingsReturnsOwnSettings(h) ==
    /\ h \in Suspended
    /\ h.pc = "getSettings"
    /\ Run("timer", h.id, h.settings, present[h.id], display, Take(inflight, h))
    /\ UNCHANGED <<variant, present, stored, call>>

\* the host answers getSettings with the settings it stores now
GetSettingsReturns(h) ==
    /\ h \in Suspended
    /\ h.pc = "getSettings"
    /\ Run("timer", h.id, stored[h.id], present[h.id], display, Take(inflight, h))
    /\ UNCHANGED <<variant, present, stored, call>>

\* the alert indicator goes away by itself
AlertExpires(actionId) ==
    /\ display[actionId].alert
    /\ display' = [display EXCEPT ![actionId].alert = FALSE]
    /\ UNCHANGED <<variant, present, stored, refreshIntervals, timers, inflight,
                   call, cycles>>

(* ---- I/O completions ---- *)
ResponseArrives(h, i, r) ==
    /\ h \in Suspended
    /\ h.pc = "pipeline"
    /\ i \in DOMAIN h.clients
    /\ h.clients[i].pc = "fetch"
    /\ LET c == OnResponse(h.clients[i], r)
       IN IF c.pc # "thrown"
          THEN /\ Resume(h, [h EXCEPT !.clients[i] = c])
               /\ UNCHANGED <<refreshIntervals, timers, display>>
          ELSE IF h.kind = "detached"
          THEN /\ inflight' = Take(inflight, h)
               /\ UNCHANGED <<refreshIntervals, timers, display, cycles>>
          ELSE Settle(h, TRUE, Others(h, i))
    /\ UNCHANGED <<variant, present, stored, call>>

SleepEnds(h, i) ==
    /\ h \in Suspended
    /\ h.pc = "pipeline"
    /\ i \in DOMAIN h.clients
    /\ h.clients[i].pc = "sleep"
    /\ Resume(h, [h EXCEPT !.clients[i] = OnWake(h.clients[i])])
    /\ UNCHANGED <<variant, present, stored, refreshIntervals, timers, display, call>>

BodyArrives(h, i, b) ==
    /\ h \in Suspended
    /\ h.pc = "pipeline"
    /\ i \in DOMAIN h.clients
    /\ h.clients[i].pc = "returned"
    /\ LET g == [h EXCEPT !.clients[i].pc = "done", !.clients[i].body = b]
           alldone == \A j \in DOMAIN g.clients : g.clients[j].pc = "done"
       IN IF h.kind = "detached"
          THEN /\ inflight' = Take(inflight, h)
               /\ UNCHANGED <<refreshIntervals, timers, display, cycles>>
          ELSE IF BodyRejects(b)
          THEN Settle(h, TRUE, Others(h, i))
          ELSE IF alldone
          THEN Settle(h, Throws(g.clients), <<>>)
          ELSE /\ Resume(h, g)
               /\ UNCHANGED <<refreshIntervals, timers, display>>
    /\ UNCHANGED <<variant, present, stored, call>>

Next ==
    \/ \E id \in ActionIds, s \in SettingsOf(variant) : OnWillAppear(id, s)
    \/ \E id \in ActionIds : OnWillDisappear(id)
    \/ \E id \in ActionIds, s \in SettingsOf(variant) : OnDidReceiveSettings(id, s)
    \/ \E id \in ActionIds : OnKeyDown(id)
    \/ \E t \in Handles : TimerFire(t)
    \/ \E h \in Suspended : GetSettingsReturns(h)
    \/ \E id \in ActionIds : AlertExpires(id)
    \/ \E h \in Suspended, i \in 1..2, r \in PipelineResponses : ResponseArrives(h, i, r)
    \/ \E h \in Suspended, i \in 1..2 : SleepEnds(h, i)
    \/ \E h \in Suspended, i \in 1..2, b \in Bodies(variant) : BodyArrives(h, i, b)

Spec == Init /\ [][Next]_vars

(* ------------------ the retry client on its own ----------------------- *)
\* One call fetchWithRetry(url, options, maxRetries, initialDelay) against a
\* server that answers as it likes.  call.log is what the call did, in
\* order: the requests it issued, the answers it got, the sleeps it began.
InitialDelays == {1000, 250}

Event(ev, arg) == [ev |-> ev, arg |-> arg]
Requested == Event("request", 0)
Answered(r) == IF r.rejected THEN Event("rejected", 0) ELSE Event("response", r.status)
Slept(ms) == Event("sleep", ms)

InitFetch ==
    /\ variant = "chart"
    /\ present = [id \in ActionIds |-> FALSE]
    /\ stored = [id \in ActionIds |-> NoSettings]
    /\ refreshIntervals = [id \in ActionIds |-> NoHandle]
    /\ timers = [h \in Handles |-> FreeTimer]
    /\ inflight = EmptyBag
    /\ display = [id \in ActionIds |-> Key(EmptyTitle, NoImage, FALSE)]
    /\ \E m \in 0..MaxRetriesBound, d \in InitialDelays :
          call = [client |-> FetchStart(m, d), log |-> <<Requested>>]
    /\ cycles = NotRecorded

CallAnswered(r) ==
    /\ call.client.pc = "fetch"
    /\ LET c == OnResponse(call.client, r)
       IN call' = [client |-> c,
                   log |-> call.log \o <<Answered(r)>>
                           \o (IF c.pc = "sleep" THEN <<Slept(c.delay)>> ELSE <<>>)]
    /\ UNCHANGED <<variant, present, stored, refreshIntervals, timers, inflight,
                   display, cycles>>

CallWakes ==
    /\ call.client.pc = "sleep"
    /\ call' = [client |-> OnWake(call.client), log |-> call.log \o <<Requested>>]
    /\ UNCHANGED <<variant, present, stored, refreshIntervals, timers, inflight,
                   display, cycles>>

NextFetch ==
    \/ \E r \in Responses : CallAnswered(r)
    \/ CallWakes

SpecFetch == InitFetch /\ [][NextFetch]_vars

(* ------------- the refresh interval of an unconfigured key ------------ *)
\* A key whose symbol is not set yet is given every refreshInterval the
\* property inspector offers and short strings it does not offer.
IntervalAlphabet == {"5", "a", " ", "-"}

EnumeratedIntervals ==
    { <<"2", "0", "0", "0">>, <<"5", "0", "0", "0">>, <<"1", "5", "0", "0", "0">>,
      <<"3", "0", "0", "0", "0">>, <<"6", "0", "0", "0", "0">>,
      <<"3", "0", "0", "0", "0", "0">>, <<"6", "0", "0", "0", "0", "0">> }

Strings(n) == UNION {[1..k -> IntervalAlphabet] : k \in 0..n}

IntervalSettings ==
    {Settings(Undefined, Undefined, ri) :
        ri \in {Undefined} \cup EnumeratedIntervals \cup Strings(MaxLen)}

InitInterval ==
    /\ variant = "chart"
    /\ present = [id \in ActionIds |-> FALSE]
    /\ stored = [id \in ActionIds |-> NoSettings]
    /\ refreshIntervals = [id \in ActionIds |-> NoHandle]
    /\ timers = [h \in Handles |-> FreeTimer]
    /\ inflight = EmptyBag
    /\ display = [id \in ActionIds |-> Key(EmptyTitle, NoImage, FALSE)]
    /\ call = NoCall
    /\ cycles = NotRecorded

NextInterval ==
    \/ \E s \in IntervalSettings : OnWillAppear("X", s)
    \/ \E s \in IntervalSettings : OnDidReceiveSettings("X", s)
    \/ OnWillDisappear("X")
    \/ OnKeyDown("X")
    \/ \E t \in Handles : TimerFire(t)
    \/ \E h \in Suspended : GetSettingsReturns(h)

SpecInterval == InitInterval /\ [][NextInterval]_vars

(* ------------------ the refresh cycles in their order ------------------ *)
\* The scheduler and the pipeline with the history of the cycles recorded,
\* the host changing the stored settings also without telling the plugin,
\* and every request answered at once: with a quote, or with a failure.
CycleResponses == {Response(200), Response(500)}
CycleBodies == {"quote", "invalid"}

\* the settings the host stores change and no event is sent
OutOfBandChange(actionId, settings) ==
    /\ stored[actionId] # settings
    /\ stored' = [stored EXCEPT ![actionId] = settings]
    /\ UNCHANGED <<variant, present, refreshIntervals, timers, inflight, display,
                   call, cycles>>

InitCycles ==
    /\ variant \in {"chart", "quote"}
    /\ present = [id \in ActionIds |-> FALSE]
    /\ stored = [id \in ActionIds |-> NoSettings]
    /\ refreshIntervals = [id \in ActionIds |-> NoHandle]
    /\ timers = [h \in Handles |-> FreeTimer]
    /\ inflight = EmptyBag
    /\ display = [id \in ActionIds |-> Key(EmptyTitle, NoImage, FALSE)]
    /\ call = NoCall
    /\ cycles = NoCycles

NextCycles ==
    \/ \E id \in ActionIds, s \in SettingsOf(variant) : OnWillAppear(id, s)
    \/ \E id \in ActionIds : OnWillDisappear(id)
    \/ \E id \in ActionIds, s \in SettingsOf(variant) : OnDidReceiveSettings(id, s)
    \/ \E id \in ActionIds, s \in SettingsOf(variant) : OutOfBandChange(id, s)
    \/ \E id \in ActionIds : OnKeyDown(id)
    \/ \E t \in Handles : TimerFire(t)
    \/ \E h \in Suspended : GetSettingsReturns(h)
    \/ \E h \in Suspended, i \in 1..2, r \in CycleResponses : ResponseArrives(h, i, r)
    \/ \E h \in Suspended, i \in 1..2, b \in CycleBodies : BodyArrives(h, i, b)

SpecCycles == InitCycles /\ [][NextCycles]_vars

(* ----------------- one refresh cycle on a given payload --------------- *)
\* A visible key with a symbol (and a credential) whose cycle has been
\* answered 2xx: the bodies are read and the rest of the try block runs.
\* call holds the payload (data, and the clock now), the normalized quote
\* and what the try block came to; a later cycle may bring another payload.
Periods == {Absent} \cup {Period(s, e) : s, e \in 0..MaxTime}
TradingPeriods == {Absent} \cup {TradingPeriod(a, b, c) : a, b, c \in Periods}

\* boundaries that make the session at time 1 CLOSED, PRE, REGULAR, POST
SessionsAt1 ==
    { Absent,
      TradingPeriod(Period(0, 2), Absent, Absent),
      TradingPeriod(Absent, Period(0, 2), Absent),
      TradingPeriod(Absent, Absent, Period(0, 2)) }

CloseValues == {Null, Num(10000), Num(10200)}
Closes == {Absent} \cup {Array(c) : c \in UNION {[1..k -> CloseValues] : k \in 0..MaxCandles}}
Timestamps == {Absent} \cup {Array([i \in 1..k |-> i]) : k \in 0..MaxCandles}
Prices == {0, 1, 42338, 48064}

Input(data, now) == [data |-> data, now |-> now]

\* every set of boundaries at every time, over fixed prices
SessionInputs ==
    { Input(ChartData(Null, Array(<<Result(Meta(42338, 48064, tp),
                                           Array(<<1, 2>>),
                                           Array(<<Num(10000), Null>>))>>)), now) :
        tp \in TradingPeriods, now \in 0..MaxTime }

\* every timestamp array and close series in each session
CandleInputs ==
    { Input(ChartData(Null, Array(<<Result(Meta(9900, 10100, tp), ts, close)>>)), 1) :
        tp \in SessionsAt1, ts \in Timestamps, close \in Closes }

\* prices and previous closes, in and out of extended hours
PriceInputs ==
    { Input(ChartData(Null, Array(<<Result(Meta(p, pc, tp), Array(<<1>>), Array(<<c>>))>>)), 1) :
        p \in Prices, pc \in Prices, tp \in SessionsAt1,
        c \in {Null} \cup {Num(v) : v \in Prices} }

\* payloads with and without an error object and a result record
ErrorInputs ==
    { Input(ChartData(error, result), 1) :
        error \in {Null, Absent, ErrorObject},
        result \in { Absent, Null, Array(<<>>),
                     Array(<<Result(Meta(42338, 48064, Absent), Absent, Absent)>>) } }

ChartInputs == SessionInputs \cup CandleInputs \cup PriceInputs \cup ErrorInputs

\* bodies of the quote revision: the provider's own d and dp, which need
\* not be c - pc
FinnhubInputs ==
    { Input(FinnhubData(FinnhubQuote(c, d, dp, Num(48064)), MarketStatus(isOpen, session)), 1) :
        c \in {Null, Num(0), Num(42338)},
        d \in {Null, Num(-5726), Num(0), Num(1)},
        dp \in {Null, Num(-1191), Num(0)},
        isOpen \in BOOLEAN,
        session \in {"pre-market", "regular", "post-market", ""} }

Inputs(v) == IF v = "chart" THEN ChartInputs ELSE FinnhubInputs

\* the payloads a later cycle of the key may bring
LaterInputs(v) ==
    IF v = "chart"
    THEN { Input(ChartData(Null, Array(<<Result(Meta(48064, 42338, TradingPeriod(Absent, Period(0, 2), Absent)), Absent, Absent)>>)), 1),
           Input(ChartData(ErrorObject, Absent), 1) }
    ELSE { Input(FinnhubData(FinnhubQuote(Num(48064), Num(5726), Num(1352), Num(42338)),
                             MarketStatus(TRUE, "regular")), 1),
           Input(FinnhubData(FinnhubQuote(Num(0), Null, Null, Num(0)),
                             MarketStatus(FALSE, "")), 1) }

Pending == Thrown("pending")
Fetched(input) ==
    [pc |-> "json", data |-> input.data, now |-> input.now,
     quote |-> Pending, shown |-> Pending]

InitQuote ==
    /\ variant \in {"chart", "quote"}
    /\ present = [id \in ActionIds |-> TRUE]
    /\ \E symbol \in {msft, MSFT} :
          stored = [id \in ActionIds |->
                       Settings(symbol, IF variant = "chart" THEN Undefined ELSE key,
                                Undefined)]
    /\ refreshIntervals = [id \in ActionIds |-> NoHandle]
    /\ timers = [h \in Handles |-> FreeTimer]
    /\ inflight = EmptyBag
    /\ display = [id \in ActionIds |-> Key(EmptyTitle, NoImage, FALSE)]
    /\ \E input \in Inputs(variant) : call = Fetched(input)
    /\ cycles = NotRecorded

\* response.json() has given the bodies: the rest of the try block, or the
\* catch block
BodiesRead ==
    /\ call.pc = "json"
    /\ LET shown == TryBlock(variant, stored["X"].symbol, call.data, call.now)
       IN /\ display' = IF shown.ok
                        THEN ShowFrame(display, "X", shown.value)
                        ELSE ShowError(display, "X", stored["X"])
          /\ call' = [call EXCEPT
                         !.pc = "done",
                         !.quote = IF variant = "chart"
                                   THEN GetYahooQuote(call.data, call.now)
                                   ELSE Returned(call.data.quote),
                         !.shown = shown]
    /\ UNCHANGED <<variant, present, stored, refreshIntervals, timers, inflight, cycles>>

\* a later cycle of the key has been answered
Refetched(input) ==
    /\ call.pc = "done"
    /\ call' = Fetched(input)
    /\ UNCHANGED <<variant, present, stored, refreshIntervals, timers, inflight,
                   display, cycles>>

NextQuote ==
    \/ BodiesRead
    \/ \E input \in LaterInputs(variant) : Refetched(input)

SpecQuote == InitQuote /\ [][NextQuote]_vars

(* ------------------- successive settings-changed events ---------------- *)
\* SpecSettings: a key that has appeared with the settings s, whose handler
\* has ended (the quote is shown or "Setup Required" is, and the timer runs
\* with the period of s), receives settings-changed events and nothing else;
\* the handlers of these events overlap and end in every order.
InitSettings ==
    /\ variant \in {"chart", "quote"}
    /\ present = [id \in ActionIds |-> TRUE]
    /\ \E s \in SettingsOf(variant) :
          /\ stored = [id \in ActionIds |-> s]
          /\ timers = [h \in Handles |->
                          IF h = 1 THEN Timer("X", TimerPeriod(RefreshMs(s))) ELSE FreeTimer]
          /\ display = [id \in ActionIds |->
                           IF MissingConfiguration(variant, s)
                           THEN Key(SetupRequired, NoImage, FALSE)
                           ELSE Key(EmptyTitle, StockImage(ToUpperCase(s.symbol)), FALSE)]
    /\ refreshIntervals = [id \in ActionIds |-> 1]
    /\ inflight = EmptyBag
    /\ call = NoCall
    /\ cycles = NotRecorded

NextSettings ==
    \/ \E id \in ActionIds, s \in SettingsOf(variant) : OnDidReceiveSettings(id, s)
    \/ \E h \in Suspended, i \in 1..2, r \in CycleResponses : ResponseArrives(h, i, r)
    \/ \E h \in Suspended, i \in 1..2, b \in CycleBodies : BodyArrives(h, i, b)

SpecSettings == InitSettings /\ [][NextSettings]_vars

(* ------------------------- key-downs, with fairness -------------------- *)
\* SpecLoading: the key of SpecSettings is pressed, and receives
\* settings-changed events, while its runs are out; every request returns
\* or fails and every body is read, so that a suspended handler goes on.
Completes ==
    \/ \E h \in Suspended, i \in 1..2, r \in CycleResponses : ResponseArrives(h, i, r)
    \/ \E h \in Suspended, i \in 1..2, b \in CycleBodies : BodyArrives(h, i, b)

\* a request is out or a body is being read: Completes can happen
CanComplete ==
    \E h \in Suspended :
       /\ h.pc = "pipeline"
       /\ \E i \in DOMAIN h.clients : h.clients[i].pc \in {"fetch", "returned"}

NextLoading ==
    \/ \E id \in ActionIds : OnKeyDown(id)
    \/ \E id \in ActionIds, s \in SettingsOf(variant) : OnDidReceiveSettings(id, s)
    \/ Completes

\* WF_vars(Completes), with ENABLED <<Completes>>_vars written as CanComplete
FairCompletes == []<>(~CanComplete) \/ []<><<Completes>>_vars

SpecLoading == InitSettings /\ [][NextLoading]_vars /\ FairCompletes

(* ======================== properties =================================== *)
ActiveTimers(id) == {h \in Handles : timers[h].active /\ timers[h].id = id}

RECURSIVE CountIn(_, _)
CountIn(bag, hs) ==
    IF hs = {} THEN 0
    ELSE LET h == CHOOSE x \in hs : TRUE
         IN CopiesIn(h, bag) + CountIn(bag, hs \ {h})

\* how many handlers of that kind are suspended for the instance
InFlightOf(bag, kind, id) ==
    CountIn(bag, {h \in BagToSet(bag) : h.kind = kind /\ h.id = id})

\* how many pipeline runs are suspended for the instance
RunsFor(bag, id) ==
    CountIn(bag, {h \in BagToSet(bag) :
                     h.kind # "detached" /\ h.pc = "pipeline" /\ h.id = id})

RECURSIVE RequestsIn(_, _)
RequestsIn(bag, hs) ==
    IF hs = {} THEN 0
    ELSE LET h == CHOOSE x \in hs : TRUE
         IN CopiesIn(h, bag) * Len(SelectSeq(h.clients, LAMBDA c : c.pc = "fetch"))
            + RequestsIn(bag, hs \ {h})

\* the requests that are out
Requests(bag) == RequestsIn(bag, BagToSet(bag))

(* ---- C1 ---- *)
AtMostOneTimer == \A id \in ActionIds : Cardinality(ActiveTimers(id)) <= 1

\* a step in which a settings-changed handler for id comes to its end
SettingsHandlerEnds(id) ==
    \/ InFlightOf(inflight', "settings", id) < InFlightOf(inflight, "settings", id)
    \/ /\ \E s \in SettingsOf(variant) : OnDidReceiveSettings(id, s)
       /\ InFlightOf(inflight', "settings", id) = InFlightOf(inflight, "settings", id)

\* C1: at most one timer is active for an instance in every reachable state,
\* whatever the interleaving of the handlers; and each time a settings-changed
\* handler for the instance ends, exactly one timer is active for it (so also
\* once the handlers of two successive settings-changed events have both ended).
C1_OneTimerPerInstance ==
    /\ []AtMostOneTimer
    /\ [][\A id \in ActionIds :
            SettingsHandlerEnds(id) => Cardinality(ActiveTimers(id)') = 1]_vars

\* The handlers of two successive settings-changed events are suspended at
\* once, each about to restart the one timer that is running.
C1_Witness ==
    /\ Cardinality(ActiveTimers("X")) = 1
    /\ \E h1, h2 \in Suspended :
          /\ h1.kind = "settings" /\ h2.kind = "settings"
          /\ h1.id = "X" /\ h2.id = "X"
          /\ h1.settings # h2.settings

(* ---- C2 ---- *)
\* C2: after instance-disappear the instance is Stopped (no active timer, no
\* entry in the timer map) until the next instance-appear or settings-changed
\* event.  The host sends settings-changed only to a visible instance, so an
\* instance that is not visible is one that has disappeared (or never
\* appeared) and has had no such event since.
C2_StoppedAfterDisappear ==
    \A id \in ActionIds :
        ~present[id] => refreshIntervals[id] = NoHandle /\ ActiveTimers(id) = {}

(* ---- C3 ---- *)
\* the timer fires for an instance that has disappeared
FiresWhileGone(id) ==
    /\ ~present[id]
    /\ \E t \in Handles : timers[t].id = id /\ TimerFire(t)

\* C3: while an instance is gone (instance-disappear handled, no later event
\* for it) no pipeline run is started for it: a timer that fires for it
\* starts nothing, and no other step adds a suspended pipeline run or a
\* timer callback for it.
C3_NoRunAfterDisappear ==
    [][\A id \in ActionIds :
          /\ FiresWhileGone(id) => inflight' = inflight
          /\ (~present[id] /\ ~present'[id]) =>
                /\ RunsFor(inflight', id) <= RunsFor(inflight, id)
                /\ InFlightOf(inflight', "timer", id) <= InFlightOf(inflight, "timer", id)]_vars

\* the instance is gone and a timer of it is still running
C3_Witness == ~present["X"] /\ ActiveTimers("X") # {}

(* ---- C4 ---- *)
\* a step in which a settings-changed handler for id starts its pipeline run
\* and is suspended in it
SettingsRunStarts(id) ==
    InFlightOf(inflight', "settings", id) > InFlightOf(inflight, "settings", id)

\* C4 as stated: when the settings-changed handler has started its pipeline
\* run, the timer that existed is cancelled already.
C4_CancelledBeforeRun ==
    [][\A id \in ActionIds : SettingsRunStarts(id) => ActiveTimers(id)' = {}]_vars

\* a step in which the suspended settings-changed handler h comes to its end
SettingsRunEnds(h) ==
    /\ h.kind = "settings"
    /\ InFlightOf(inflight', "settings", h.id) < InFlightOf(inflight, "settings", h.id)
    /\ CopiesIn(h, inflight') < CopiesIn(h, inflight)

\* C4 amended: the settings-changed handler runs the pipeline first and leaves
\* the timer map and the timers as they are while it does; the timer stored
\* for the instance is cancelled only in the step in which the handler ends,
\* and the same step installs the new timer with the new settings' interval.
C4_CancelledAfterRun ==
    [][/\ \A id \in ActionIds :
             SettingsRunStarts(id) => UNCHANGED <<refreshIntervals, timers>>
       /\ \A h \in Suspended :
             SettingsRunEnds(h) =>
                /\ refreshIntervals[h.id] # NoHandle =>
                      ~timers'[refreshIntervals[h.id]].active
                /\ refreshIntervals'[h.id] # NoHandle
                /\ refreshIntervals'[h.id] # refreshIntervals[h.id]
                /\ timers'[refreshIntervals'[h.id]] =
                      Timer(h.id, IF h.settings.refreshInterval = Undefined
                                  THEN 60000 ELSE 2000)]_vars

\* a settings-changed handler is suspended in its pipeline run while the
\* timer started before it is still running and may fire
C4_Witness ==
    \E h \in Suspended :
        /\ h.kind = "settings" /\ h.pc = "pipeline"
        /\ refreshIntervals[h.id] # NoHandle
        /\ ENABLED TimerFire(refreshIntervals[h.id])

(* ---- C5 ---- *)
EnumeratedMs(ri) ==
    CASE ri = <<"2", "0", "0", "0">> -> 2000
      [] ri = <<"5", "0", "0", "0">> -> 5000
      [] ri = <<"1", "5", "0", "0", "0">> -> 15000
      [] ri = <<"3", "0", "0", "0", "0">> -> 30000
      [] ri = <<"6", "0", "0", "0", "0">> -> 60000
      [] ri = <<"3", "0", "0", "0", "0", "0">> -> 300000
      [] ri = <<"6", "0", "0", "0", "0", "0">> -> 600000

\* a string with no digit in it: no integer can be read from it
NoDigit(str) == str # Undefined /\ \A i \in 1..Len(str) : str[i] \notin Digits

\* the period C5 gives for the settings: the enumerated value, or 60000 for
\* an absent, empty or unparsable setting (no period is claimed otherwise)
ClaimedPeriods(ri) ==
    IF ri \in EnumeratedIntervals THEN {EnumeratedMs(ri)}
    ELSE IF Falsy(ri) \/ NoDigit(ri) THEN {60000}
    ELSE 1..TimeoutMax

\* C5: the timer's period is the configured interval for an enumerated
\* setting and 60000 ms for an absent, empty or unparsable one.  (Under
\* SpecInterval every handler ends in the step that starts it, so the timer
\* that runs was started with the stored settings.)
C5_PeriodAsConfigured ==
    \A id \in ActionIds : \A h \in ActiveTimers(id) :
        timers[h].ms \in ClaimedPeriods(stored[id].refreshInterval)

\* the part of C5 the code does meet: enumerated, absent and empty settings
C5_PeriodOfEnumerated ==
    \A id \in ActionIds : \A h \in ActiveTimers(id) :
        LET ri == stored[id].refreshInterval
        IN (ri \in EnumeratedIntervals \/ Falsy(ri)) =>
              timers[h].ms \in ClaimedPeriods(ri)

(* ---- C6, C7, C8: the retry client ---- *)
IsAnswer(e) == e.ev \in {"response", "rejected"}
Answers(log) == SelectSeq(log, IsAnswer)
RateLimited(e) == e.ev = "response" /\ e.arg = 429
Success(e) == e.ev = "response" /\ e.arg \in 200..299
NumberOf(log, ev) == Len(SelectSeq(log, LAMBDA e : e.ev = ev))

RECURSIVE Doubled(_, _)
Doubled(ms, i) == IF i = 0 THEN ms ELSE 2 * Doubled(ms, i - 1)

\* what a call does over k rate-limited requests: request, 429, sleep, with
\* the i-th sleep (from 0) lasting initialDelay doubled i times
RECURSIVE RetryRounds(_, _)
RetryRounds(initialDelay, k) ==
    IF k = 0 THEN <<>>
    ELSE RetryRounds(initialDelay, k - 1)
         \o <<Requested, Event("response", 429), Slept(Doubled(initialDelay, k - 1))>>

AllRateLimited(a, n) == \A j \in 1..n : RateLimited(a[j])

Terminated == call.client.pc \in {"returned", "thrown"}

\* C6: when the first k answers are 429 (k <= maxRetries) the call is still
\* trying, and when the (k+1)-th is 2xx it returns: it has then issued k+1
\* requests and slept k times, sleep i lasting initialDelay * 2^i, each sleep
\* between one request and the next.
C6_BackoffThenSuccess ==
    LET a == Answers(call.log)
        n == Len(a)
        c == call.client
    IN /\ (n <= c.maxRetries /\ AllRateLimited(a, n)) =>
             /\ c.pc \in {"sleep", "fetch"}
             /\ call.log \in { RetryRounds(c.initialDelay, n),
                               RetryRounds(c.initialDelay, n) \o <<Requested>> }
       /\ (n >= 1 /\ n - 1 <= c.maxRetries /\ AllRateLimited(a, n - 1) /\ Success(a[n])) =>
             /\ c.pc = "returned"
             /\ call.log = RetryRounds(c.initialDelay, n - 1) \o <<Requested, a[n]>>
             /\ NumberOf(call.log, "request") = n
             /\ NumberOf(call.log, "sleep") = n - 1

\* three 429 answers, then 200: the call has returned
C6_Witness ==
    /\ call.client.pc = "returned"
    /\ call.client.maxRetries = 3
    /\ Len(Answers(call.log)) = 4

\* C7: maxRetries+1 answers of 429 in a row make the call fail with the
\* rate-limit error, after maxRetries+1 requests and maxRetries sleeps; a call
\* that has ended issues no request and starts no sleep; no call issues more
\* than maxRetries+1 requests.
C7_RateLimitExceeded ==
    LET a == Answers(call.log)
        n == Len(a)
        c == call.client
    IN /\ NumberOf(call.log, "request") <= c.maxRetries + 1
       /\ NumberOf(call.log, "sleep") <= c.maxRetries
       /\ (n = c.maxRetries + 1 /\ AllRateLimited(a, n)) =>
             /\ c.pc = "thrown"
             /\ c.err = "RateLimitExceeded"
             /\ call.log = RetryRounds(c.initialDelay, c.maxRetries)
                           \o <<Requested, Event("response", 429)>>
       /\ Terminated => ~ENABLED NextFetch

\* the call has failed with the rate-limit error after retrying
C7_Witness ==
    /\ call.client.pc = "thrown"
    /\ call.client.err = "RateLimitExceeded"
    /\ call.client.maxRetries = 3
    /\ NumberOf(call.log, "request") = 4

\* a status that is neither 2xx nor 429
OtherStatus(e) == e.ev = "response" /\ e.arg \notin 200..299 /\ e.arg # 429

\* C8: only 429 is retried.  A status that is neither 2xx nor 429, or a
\* request that fails at network level, ends the call at that attempt: it has
\* failed (request failed; the rejection of fetch itself at network level),
\* that answer is the last thing it did, and it does nothing more.  Every
\* sleep follows a 429 and every request but the first follows a sleep.
C8_OnlyRateLimitRetried ==
    LET a == Answers(call.log)
        n == Len(a)
        c == call.client
        last == call.log[Len(call.log)]
    IN /\ (n >= 1 /\ OtherStatus(a[n])) =>
             c.pc = "thrown" /\ c.err = "RequestFailed" /\ last = a[n]
       /\ (n >= 1 /\ a[n].ev = "rejected") =>
             c.pc = "thrown" /\ c.err = "FetchRejected" /\ last = a[n]
       /\ (n >= 1 /\ (OtherStatus(a[n]) \/ a[n].ev = "rejected")) => ~ENABLED NextFetch
       /\ \A j \in 1..Len(call.log) :
             /\ call.log[j].ev = "sleep" => RateLimited(call.log[j - 1])
             /\ (call.log[j].ev = "request" /\ j > 1) => call.log[j - 1].ev = "sleep"

\* a call that was rate limited twice and then answered 500 has failed
C8_Witness ==
    /\ call.client.pc = "thrown"
    /\ call.client.err = "RequestFailed"
    /\ call.client.attempt = 2
    /\ call.log[Len(call.log)] = Event("response", 500)

(* ---- C9 ---- *)
\* a required setting is absent: the symbol, or in the quote revision the
\* credential
RequiredAbsent(settings) ==
    \/ Falsy(settings.symbol)
    \/ variant = "quote" /\ Falsy(settings.apiKey)

\* the key of id is told "Setup Required" and nothing else, and no request
\* goes out
SetupRequiredOnly(id) ==
    /\ display' = [display EXCEPT ![id].title = SetupRequired]
    /\ Requests(inflight') = Requests(inflight)

\* C9: a pipeline run whose settings lack a required setting sets the title
\* "Setup Required", issues no request and shows no alert, in every handler
\* that runs it; and the run itself leaves the timer map and the timers alone
\* (the key-down handler and the timer callback, which do nothing after the
\* run, leave them unchanged).
C9_SetupRequired ==
    [][\A id \in ActionIds :
          /\ (OnKeyDown(id) /\ RequiredAbsent(stored[id])) =>
                SetupRequiredOnly(id) /\ UNCHANGED <<refreshIntervals, timers>>
          /\ \A h \in Suspended :
                (/\ h.id = id /\ h.pc = "getSettings" /\ present[id]
                 /\ RequiredAbsent(stored[id])
                 /\ GetSettingsReturns(h)) =>
                   SetupRequiredOnly(id) /\ UNCHANGED <<refreshIntervals, timers>>
          /\ \A s \in SettingsOf(variant) :
                (RequiredAbsent(s) /\ (OnWillAppear(id, s) \/ OnDidReceiveSettings(id, s))) =>
                   SetupRequiredOnly(id)]_vars

\* the quote revision shows "Setup Required" for a key that has a symbol and
\* no credential, with no request out
C9_Witness ==
    /\ variant = "quote"
    /\ present["X"]
    /\ stored["X"] = Settings(msft, Undefined, <<"2", "0", "0", "0">>)
    /\ display["X"].title = SetupRequired
    /\ ~display["X"].alert
    /\ inflight = EmptyBag

(* ---- C10 ---- *)
\* the answer r ends the call c in failure
Fatal(c, r) ==
    \/ r.rejected
    \/ r.status \notin 200..299 /\ (r.status # 429 \/ c.attempt >= c.maxRetries)

\* the body b, read by the i-th request of h, makes the run fail: it cannot
\* be parsed, or it was the last body awaited and the quote is not usable
BadBody(h, i, b) ==
    \/ b = "invalid"
    \/ /\ \A j \in DOMAIN h.clients : j # i => h.clients[j].pc = "done"
       /\ (IF i = 1 THEN b ELSE h.clients[1].body) # "quote"

\* a step in which the pipeline run of the suspended handler h fails
RunFails(h) ==
    /\ h.kind # "detached"
    /\ h.pc = "pipeline"
    /\ \E i \in DOMAIN h.clients :
          \/ \E r \in PipelineResponses : Fatal(h.clients[i], r) /\ ResponseArrives(h, i, r)
          \/ \E b \in Bodies(variant) : BadBody(h, i, b) /\ BodyArrives(h, i, b)

\* C10: a pipeline run that fails sets the title "<symbol> Error" and shows
\* an alert, and does not harm the scheduler: in the key-down handler and the
\* timer callback the timer map and the timers are unchanged, in the appear
\* and settings-changed handlers the restart that follows the run still
\* happens, and a timer that was running for the instance before the step is
\* followed by one running after it.  A timer that fires for a visible
\* instance starts a timer callback, whose pipeline run issues its requests.
C10_FailedRun ==
    [][/\ \A h \in Suspended :
             RunFails(h) =>
                /\ display' = [display EXCEPT ![h.id].title = ErrorTitle(h.settings.symbol),
                                              ![h.id].alert = TRUE]
                /\ h.kind \in {"key", "timer"} => UNCHANGED <<refreshIntervals, timers>>
                /\ h.kind \in {"appear", "settings"} =>
                      /\ refreshIntervals'[h.id] # NoHandle
                      /\ timers'[refreshIntervals'[h.id]].active
                /\ ActiveTimers(h.id) # {} => ActiveTimers(h.id)' # {}
       /\ \A t \in Handles :
             (TimerFire(t) /\ present[timers[t].id]) =>
                InFlightOf(inflight', "timer", timers[t].id)
                   = InFlightOf(inflight, "timer", timers[t].id) + 1
       /\ \A h \in Suspended :
             (/\ h.pc = "getSettings" /\ present[h.id] /\ ~RequiredAbsent(stored[h.id])
              /\ GetSettingsReturns(h)) =>
                /\ RunsFor(inflight', h.id) = RunsFor(inflight, h.id) + 1
                /\ Requests(inflight') = Requests(inflight) + Len(StartFetches(variant))]_vars

\* a run has failed on a visible key: error title, alert on, and the timer
\* of the instance is running and can fire
C10_Witness ==
    /\ present["X"]
    /\ display["X"].title = ErrorTitle(msft)
    /\ display["X"].alert
    /\ \E t \in ActiveTimers("X") : ENABLED TimerFire(t)

(* ---- C11 ---- *)
\* no cycle of the instance is in flight: no pipeline run is suspended and no
\* timer callback is waiting for its settings
Quiescent(id) ==
    /\ cycles[id].order = <<>>
    /\ RunsFor(inflight, id) = 0
    /\ InFlightOf(inflight, "timer", id) = 0

\* the key shows the rendered image under an empty title
ShowsQuote(id) == display[id].title = EmptyTitle /\ display[id].image # NoImage

\* C11: a later successful cycle clears the error state.  When a cycle of the
\* instance has failed and the cycle that started after it (the one that
\* started last) has shown its quote, then once no cycle of the instance is
\* in flight the key shows the rendered image under an empty title, whatever
\* the order in which overlapping cycles ended.
C11_LaterSuccessClears ==
    \A id \in ActionIds :
        (/\ Quiescent(id)
         /\ cycles[id].latest = "shown"
         /\ cycles[id].olderFailed) => ShowsQuote(id)

(* ---- C12 ---- *)
\* C12: a key is in one visual state at a time: a text title ("Setup
\* Required", "<symbol> Error", "Loading...") is never shown together with an
\* image, in particular not with the image an earlier successful cycle set.
C12_OneVisualState ==
    \A id \in ActionIds :
        display[id].title # EmptyTitle => display[id].image = NoImage

(* ---- C13 to C16, C19, C20: one cycle on a given payload ---- *)
\* the try block has run on the payload that call holds
Done == call.pc = "done"
\* the first result record of the payload
FirstResult == call.data.result.items[1]

(* ---- C13 ---- *)
\* the places of a close series that hold a price
ValidEntries(close) ==
    IF Nullish(close) THEN {}
    ELSE {i \in DOMAIN close.items : ~Nullish(close.items[i])}

Last(places) == CHOOSE i \in places : \A j \in places : j <= i

\* the price C13 gives: in extended hours the last entry of the close series
\* that is a price, the regular market price when there is none or in the
\* other sessions
ClaimedPrice(result, session) ==
    IF session \in {"PRE", "POST"} /\ ValidEntries(result.close) # {}
    THEN result.close.items[Last(ValidEntries(result.close))].val
    ELSE result.meta.regularMarketPrice

\* C13: in the chart revision the normalized price is, in session PRE or
\* POST, the last entry of the close series that is neither null nor missing,
\* for every timestamp array and close series (also a close series shorter
\* than the timestamp array), and regularMarketPrice when there is no such
\* entry; in session REGULAR or CLOSED it is regularMarketPrice.  (Stated
\* for the payloads whose close series is no longer than the timestamp array.)
C13_ExtendedHoursPrice ==
    (/\ variant = "chart" /\ Done /\ call.quote.ok
     /\ ~Nullish(FirstResult.timestamp)
     /\ (~Nullish(FirstResult.close) =>
            Len(FirstResult.close.items) <= Len(FirstResult.timestamp.items))) =>
        call.quote.value.price = ClaimedPrice(FirstResult, call.quote.value.marketState)

\* the part of C13 the code does meet: a close series as long as the
\* timestamp array
C13_AlignedSeries ==
    (/\ variant = "chart" /\ Done /\ call.quote.ok
     /\ ~Nullish(FirstResult.timestamp) /\ ~Nullish(FirstResult.close)
     /\ Len(FirstResult.close.items) = Len(FirstResult.timestamp.items)) =>
        call.quote.value.price = ClaimedPrice(FirstResult, call.quote.value.marketState)

(* ---- C14 ---- *)
\* the bottom line of a frame whose change is price - previousClose
RecomputedLine(price, previousClose) ==
    ToFixed2(price - previousClose) \o <<" ">>
    \o RatioToFixed2(Ratio((price - previousClose) * 100, previousClose)) \o <<"%">>

\* the previous close in the payload that call holds
PreviousCloseOfPayload ==
    IF variant = "chart" THEN FirstResult.meta.previousClose ELSE call.data.quote.pc.val

\* the price of the payload as the frame shows it
PriceShown ==
    IF variant = "chart" THEN call.quote.value.price ELSE call.data.quote.c.val

\* C14: in both revisions a rendered frame shows the change price -
\* previousClose and the percent of that difference, both of the response of
\* this cycle; the key shows that frame and no other.
C14_ChangeRecomputed ==
    (Done /\ call.shown.ok) =>
        /\ call.shown.value.line = RecomputedLine(PriceShown, PreviousCloseOfPayload)
        /\ display["X"].image = call.shown.value

\* the part of C14 the code does meet: the chart revision
C14_ChartChangeRecomputed ==
    (variant = "chart" /\ Done /\ call.shown.ok) =>
        /\ call.shown.value.line = RecomputedLine(PriceShown, PreviousCloseOfPayload)
        /\ display["X"].image = call.shown.value

(* ---- C15 ---- *)
\* the payload of the example: price 423.38, previous close 480.64, session
\* REGULAR, for a key whose symbol is MSFT
MsftExample ==
    /\ variant = "chart" /\ Done /\ call.quote.ok
    /\ stored["X"].symbol = MSFT
    /\ call.quote.value.price = 42338
    /\ call.quote.value.previousClose = 48064
    /\ call.quote.value.marketState = "REGULAR"

MsftFrame(line) ==
    [symbol |-> MSFT, marketEmoji |-> "sun", price |-> <<"4", "2", "3", ".", "3", "8">>,
     arrow |-> "down", arrowColor |-> "#ff4444", line |-> line, changeColor |-> "#ff4444"]

Contains(tradingPeriod, name, now) ==
    /\ ~Nullish(tradingPeriod)
    /\ ~Nullish(tradingPeriod[name])
    /\ tradingPeriod[name].start <= now
    /\ now < tradingPeriod[name].end

\* C16: the session of the chart revision is one of PRE, REGULAR, POST,
\* CLOSED for every clock and every set of boundaries: the first of PRE,
\* REGULAR, POST whose interval has start <= now < end, and CLOSED when none
\* has or the boundaries are missing.
C16_SessionClassified ==
    (variant = "chart" /\ Done /\ call.quote.ok) =>
        LET tp == FirstResult.meta.currentTradingPeriod
            m == call.quote.value.marketState
            pre == Contains(tp, "pre", call.now)
            regular == Contains(tp, "regular", call.now)
            post == Contains(tp, "post", call.now)
        IN /\ m \in {"PRE", "REGULAR", "POST", "CLOSED"}
           /\ (m = "PRE") <=> pre
           /\ (m = "REGULAR") <=> (~pre /\ regular)
           /\ (m = "POST") <=> (~pre /\ ~regular /\ post)
           /\ (m = "CLOSED") <=> (~pre /\ ~regular /\ ~post)
           /\ display["X"].image.marketEmoji = GetMarketEmoji(m)

\* the clock is at the end of the PRE interval and inside REGULAR and POST,
\* which overlap: the session is REGULAR
C16_Witness ==
    /\ variant = "chart" /\ Done /\ call.quote.ok
    /\ FirstResult.meta.currentTradingPeriod =
          TradingPeriod(Period(0, 1), Period(0, 2), Period(1, 2))
    /\ call.now = 1
    /\ call.quote.value.marketState = "REGULAR"

(* ---- C17 ---- *)
\* the step ends the wait of the timer callback h and starts its pipeline
\* run with the settings s: "Setup Required" when s lacks a required
\* setting, else the requests go out for a run that holds s
StartsRunWith(h, s) ==
    IF MissingConfiguration(variant, s)
    THEN /\ display' = SetTitle(display, h.id, SetupRequired)
         /\ inflight' = Take(inflight, h)
    ELSE /\ display' = display
         /\ inflight' = Put(Take(inflight, h),
                            Handler("timer", h.id, s, "pipeline", StartFetches(variant)))

\* a step in which the host answers the getSettings of the timer callback h
\* of an instance that is still visible
SettingsAnswered(h) ==
    /\ h.pc = "getSettings"
    /\ present[h.id]
    /\ GetSettingsReturns(h)

\* C17 as stated: the pipeline run of a timer fire uses the settings the host
\* stored at the time of the fire.
C17_SettingsAtFire ==
    [][\A h \in Suspended :
          SettingsAnswered(h) => StartsRunWith(h, cycles[h.id].atFire)]_vars

\* C17 amended: the pipeline run of a timer fire uses the settings the host
\* stores when it answers the getSettings request that the fire made (the
\* latest ones, which may be newer than those at the fire), not settings
\* held from the start of the timer; and the fire, the answer and every step
\* of the run leave the timer map and the timers as they are.
C17_LatestSettings ==
    [][/\ \A h \in Suspended :
             SettingsAnswered(h) =>
                StartsRunWith(h, stored[h.id]) /\ UNCHANGED <<refreshIntervals, timers>>
       /\ \A t \in Handles : TimerFire(t) => UNCHANGED <<refreshIntervals, timers>>
       /\ \A h \in Suspended :
             (h.kind = "timer" /\ CopiesIn(h, inflight') < CopiesIn(h, inflight)) =>
                UNCHANGED <<refreshIntervals, timers>>]_vars

\* The key appeared without a symbol and shows "Setup Required"; the host's
\* settings got a symbol and no event was sent (any handler given the symbol
\* would have changed the title at its end); the timer, still the one with
\* the period of the old settings, has fired and its run is out for the
\* new symbol.
C17_Witness ==
    /\ variant = "chart"
    /\ present["X"]
    /\ display["X"].title = SetupRequired
    /\ refreshIntervals["X"] # NoHandle
    /\ timers[refreshIntervals["X"]] = Timer("X", 60000)
    /\ inflight = SetToBag({Handler("timer", "X", Settings(msft, Undefined, <<"2", "0", "0", "0">>),
                                    "pipeline", StartFetches("chart"))})

(* ---- C18 ---- *)
\* the step sends out the requests of a pipeline run of a key-down handler
KeyRunStarts(id) ==
    \E g \in BagToSet(inflight') :
       /\ g.kind = "key" /\ g.id = id /\ g.pc = "pipeline"
       /\ CopiesIn(g, inflight') > CopiesIn(g, inflight)

\* the step is one of the key-down handler h: it goes on or ends
KeyHandlerSteps(h) ==
    /\ h.kind = "key"
    /\ CopiesIn(h, inflight') < CopiesIn(h, inflight)

\* C18: a key-down on a visible key sets the title "Loading..." before the
\* requests of its pipeline run are out and before any frame is pushed: when
\* the handler first suspends, with its requests out, the key shows "Loading..."
\* over the image it had.  The handler leaves the scheduler as it is: its
\* first step and each of its later steps, to its end, keep the timer map and
\* every timer (a stopped instance stays stopped, a running one keeps its
\* timer and its period).
C18_ManualTrigger ==
    [][/\ \A id \in ActionIds :
             OnKeyDown(id) =>
                /\ UNCHANGED <<refreshIntervals, timers>>
                /\ display'[id].image = display[id].image
                /\ KeyRunStarts(id) => display'[id].title = Loading
       /\ \A h \in Suspended :
             KeyHandlerSteps(h) => UNCHANGED <<refreshIntervals, timers>>]_vars

\* the run of a key-down handler is out on its requests, the key shows
\* "Loading...", and the timer of the instance is running
C18_Witness ==
    /\ present["X"]
    /\ display["X"].title = Loading
    /\ refreshIntervals["X"] # NoHandle
    /\ timers[refreshIntervals["X"]].active
    /\ \E h \in Suspended : h.kind = "key" /\ h.id = "X" /\ h.pc = "pipeline"

(* ---- C19 ---- *)
\* the change of the quote that the frame was made of
ChangeShown ==
    IF variant = "chart" THEN call.quote.value.change ELSE call.data.quote.d.val

NoFirstResult ==
    \/ Nullish(call.data.result)
    \/ Nullish(At(call.data.result, 1))

\* the step reads the payload, ends in the failure err with no quote made,
\* and leaves the image of the key as it was
FailsWith(err) ==
    /\ call'.quote = Thrown(err)
    /\ ~call'.shown.ok
    /\ display'["X"].image = display["X"].image

\* C20: in the chart revision a payload with an error object fails with the
\* provider error, whether or not a result record is there too; a payload
\* with no error object and no first result record fails with the no-data
\* error; in both cases no quote is made and no image is set in that cycle.
C20_ErrorCheckedFirst ==
    [][(variant = "chart" /\ BodiesRead) =>
          /\ ~Nullish(call.data.error) => FailsWith("ProviderError")
          /\ (Nullish(call.data.error) /\ NoFirstResult) => FailsWith("NoData")]_vars

\* a payload with an error object and a result record has been read: the
\* cycle ended with the provider error and the key shows the error title
C20_Witness ==
    /\ variant = "chart"
    /\ Done
    /\ call.data.error = ErrorObject
    /\ ~NoFirstResult
    /\ call.quote = Thrown("ProviderError")
    /\ display["X"].title = ErrorTitle(stored["X"].symbol)

(* ---- C21 ---- *)
\* the timers that were created and are not cancelled
AllActiveTimers == {h \in Handles : timers[h].active}

\* the handles the timer map holds
MappedHandles == {refreshIntervals[id] : id \in ActionIds} \ {NoHandle}

\* C21: in every reachable state the active timers are exactly the handles
\* the timer map holds: no timer is active that the map does not refer to,
\* and the map refers to no cancelled timer.  A step that replaces or removes
\* the handle stored for an instance (startRefreshInterval, onWillDisappear)
\* leaves that handle's timer cancelled.
C21_ActiveTimersAreMapped ==
    /\ [](AllActiveTimers = MappedHandles)
    /\ [][\A id \in ActionIds :
            (refreshIntervals[id] # NoHandle /\ refreshIntervals'[id] # refreshIntervals[id]) =>
               ~timers'[refreshIntervals[id]].active]_vars

\* the timer of the key has been restarted: the map holds the second handle,
\* whose timer is active, and the timer of the first handle is cancelled
C21_Witness ==
    /\ present["X"]
    /\ refreshIntervals["X"] = 2
    /\ timers[2] = Timer("X", 2000)
    /\ ~timers[1].active

(* ---- C22 ---- *)
\* C22: the settings received last win.  Once the handlers of the
\* settings-changed events of an instance have all ended, the timer of the
\* instance has the period of the settings received last (which are the
\* settings the host stores), in whatever order the pipeline runs of the
\* handlers ended.
C22_LastSettingsWin ==
    \A id \in ActionIds :
        (present[id] /\ InFlightOf(inflight, "settings", id) = 0) =>
            /\ refreshIntervals[id] # NoHandle
            /\ timers[refreshIntervals[id]] = Timer(id, TimerPeriod(RefreshMs(stored[id])))

\* the state a key is in when only settings-changed events follow: it has
\* appeared, its handler has ended and its timer runs
C22_AppearedAndIdle ==
    /\ present["X"]
    /\ inflight = EmptyBag
    /\ refreshIntervals["X"] = 1
    /\ timers[1] = Timer("X", TimerPeriod(RefreshMs(stored["X"])))
    /\ display["X"] = IF MissingConfiguration(variant, stored["X"])
                      THEN Key(SetupRequired, NoImage, FALSE)
                      ELSE Key(EmptyTitle, StockImage(ToUpperCase(stored["X"].symbol)), FALSE)

(* ---- C23 ---- *)
\* the titles a pipeline run leaves
FinalTitles ==
    {EmptyTitle, SetupRequired} \cup {ErrorTitle(s.symbol) : s \in SettingsOf(variant)}

\* C23: "Loading..." is transient.  When every request returns or fails, a
\* key that shows "Loading..." comes to show an empty title, "Setup Required"
\* or "<symbol> Error"; and in no state does a key show "Loading..." with no
\* pipeline run of its instance in flight.
C23_LoadingTransient ==
    /\ \A id \in ActionIds :
          (display[id].title = Loading) ~> (display[id].title \in FinalTitles)
    /\ [](\A id \in ActionIds : RunsFor(inflight, id) = 0 => display[id].title # Loading)

\* The fairness of SpecLoading is the weak fairness of Completes: CanComplete
\* holds exactly when a step of Completes can be taken.
C23_CompletesEnabled == CanComplete <=> ENABLED <<Completes>>_vars

\* a key-down has set "Loading..." over the frame the key showed; its run is
\* the only one out and its request has returned, the body not yet read
C23_Witness ==
    /\ present["X"]
    /\ display["X"].title = Loading
    /\ display["X"].image # NoImage
    /\ \E h \in Suspended :
          /\ inflight = SetToBag({h})
          /\ h.kind = "key" /\ h.id = "X" /\ h.pc = "pipeline"
          /\ \E i \in DOMAIN h.clients : h.clients[i].pc = "returned"

====
